---- MODULE Spec2Model ----
(***************************************************************************)
(* Model of the flight-fare dashboard (assets/app.js): the data loader,    *)
(* the runAnalysis filter pipeline, the grouping/aggregation helpers, the  *)
(* two table builders, the buy-timing chart and the asynchronous calendar  *)
(* chart with its in-flight fetches.                                       *)
(*                                                                         *)
(* Conventions.                                                            *)
(*  - A calendar date string "YYYY-MM-DD" is the record [y, m, d]; the     *)
(*    conversion new Date(s) is DateValue (days since 2025-01-01).         *)
(*  - An optional string field (airline) is a sequence of length <= 1:     *)
(*    <<>> is the missing property (undefined), <<s>> the string s.        *)
(*  - A JS object used as a dictionary is a sequence of [key, items]       *)
(*    pairs in the order the object enumerates its properties.             *)
(*  - A text field that the code splits on ',' is the sequence of pieces   *)
(*    split(',') yields.                                                   *)
(***************************************************************************)
EXTENDS Integers, Sequences, FiniteSets, TLC

VARIABLES
    loaded,          \* the DOMContentLoaded handler got past `await loadData()`
    resp,            \* the response the sample_data.json fetch settled with
    raw,             \* state.raw
    filtered,        \* state.filtered
    form,            \* the values of the filter form's controls
    buyChart,        \* window._buyChart
    calChart,        \* window._calChart
    live,            \* the Chart instances constructed and not yet destroyed
    nextId,          \* identity of the next Chart instance
    airlineTable,    \* rows of #airlineTable tbody
    itineraryTable,  \* rows of #itineraryTable tbody
    calls,           \* the buildCalendarChart invocations, oldest first
    monthly,         \* the content data/monthly_lowest.json is served with
    stage,           \* position of the filter-composition experiment
    comp             \* its inputs and intermediate results

vars == <<loaded, resp, raw, filtered, form, buyChart, calChart, live, nextId,
          airlineTable, itineraryTable, calls, monthly, stage, comp>>

None == [id |-> 0]

----------------------------------------------------------------------------
(* Bounds of the model *)

MaxRaw == 2         \* longest record list drawn from FilterPool
MaxRows == 3        \* longest record list drawn from TablePool
MaxTriggers == 2    \* runAnalysis invocations in one behaviour

----------------------------------------------------------------------------
(* Dates *)

Date(y, m, d) == [y |-> y, m |-> m, d |-> d]

DaysBeforeMonth == <<0, 31, 59, 90, 120, 151, 181, 212, 243, 273, 304, 334>>

\* new Date("YYYY-MM-DD") as a number: days elapsed since 2025-01-01 (UTC);
\* 2025, 2026 and 2027 are not leap years.
DateValue(dt) == (dt.y - 2025) * 365 + DaysBeforeMonth[dt.m] + (dt.d - 1)

\* new Date('2026-08-26')
endWindow == DateValue(Date(2026, 8, 26))

----------------------------------------------------------------------------
(* Strings *)

\* String.prototype.toLowerCase on the strings that occur in the model
\* (airlines, pieces of the exclusion text and their trimmed forms); the
\* other strings of the model hold no upper-case letter
ToLowerCase(s) ==
    CASE s = "KLM" -> "klm"
      [] s = "Klm" -> "klm"
      [] s = " KLM" -> " klm"
      [] s = "TAP" -> "tap"
      [] s = "Tap" -> "tap"
      [] s = "Tap " -> "tap "
      [] OTHER -> s

\* String.prototype.trim on the strings that occur in the model
Trim(s) ==
    CASE s = " KLM" -> "KLM"
      [] s = " klm" -> "klm"
      [] s = "Tap " -> "Tap"
      [] s = "tap " -> "tap"
      [] s = " " -> ""
      [] OTHER -> s

\* (r.airline || ''): a missing or empty airline reads as ''
OrEmpty(a) == IF a = <<>> THEN "" ELSE a[1]

\* obj[v] coerces v to a property name: undefined becomes "undefined"
PropertyKey(a) == IF a = <<>> THEN "undefined" ELSE a[1]

----------------------------------------------------------------------------
(* Arithmetic *)

RECURSIVE Sum(_)
Sum(s) == IF s = <<>> THEN 0 ELSE s[1] + Sum(Tail(s))

\* Math.round(avg(a)) for non-negative integers: floor(sum/len + 1/2), and
\* avg of the empty list is 0
RoundAvg(a) ==
    IF Len(a) = 0 THEN 0 ELSE (2 * Sum(a) + Len(a)) \div (2 * Len(a))

\* avg(a).toFixed(1) as a number of tenths, ties rounded up (the ties that
\* occur for short lists are multiples of 1/4, exact in binary)
Fixed1Avg(a) ==
    IF Len(a) = 0 THEN 0 ELSE (20 * Sum(a) + Len(a)) \div (2 * Len(a))

Abs(x) == IF x < 0 THEN -x ELSE x

----------------------------------------------------------------------------
(* Sequences *)

Includes(s, x) == \E i \in 1..Len(s) : s[i] = x

\* Array.prototype.sort of s with a comparator (a,b) => k(a) - k(b), where
\* keys[i] is k(s[i]); the sort is stable: equal keys keep their relative
\* order
StableSort(s, keys) ==
    LET n == Len(s)
        pos(i) == 1 + Cardinality({j \in 1..n :
                        \/ keys[j] < keys[i]
                        \/ keys[j] = keys[i] /\ j < i})
    IN  [p \in 1..n |-> s[CHOOSE i \in 1..n : pos(i) = p]]

RECURSIVE FirstOccurrences(_)
FirstOccurrences(ks) ==
    IF ks = <<>> THEN <<>>
    ELSE LET h == FirstOccurrences(SubSeq(ks, 1, Len(ks) - 1))
             x == ks[Len(ks)]
         IN  IF Includes(h, x) THEN h ELSE Append(h, x)

\* cur[key] used as a property name; the date string stands for itself and
\* the number n for the name String(n)
KeyOf(cur, key) ==
    CASE key = "airline" -> PropertyKey(cur.airline)
      [] key = "outbound_date" -> cur.outbound_date
      [] key = "days_before_departure" -> cur.days_before_departure

\* the order in which an object enumerates its property names, given in
\* insertion order: the integer-like names (a number n >= 0 stands for the
\* name String(n)) first, ascending, then the others as inserted. The
\* airline and date names of the model are not integer-like.
OwnKeys(inserted, key) ==
    IF key = "days_before_departure"
    THEN LET indices == SelectSeq(inserted, LAMBDA k : k >= 0)
             others == SelectSeq(inserted, LAMBDA k : k < 0)
         IN  StableSort(indices, indices) \o others
    ELSE inserted

\* groupBy(arr, key): one [key, items] pair per distinct key, in the order
\* the object enumerates them, each holding its records in input order
groupBy(arr, key) ==
    LET ks == OwnKeys(FirstOccurrences([i \in 1..Len(arr) |-> KeyOf(arr[i], key)]),
                      key)
    IN  [g \in 1..Len(ks) |->
            [key |-> ks[g],
             items |-> SelectSeq(arr, LAMBDA r : KeyOf(r, key) = ks[g])]]

----------------------------------------------------------------------------
(* runAnalysis: the filter pipeline *)

\* Program constants of the filter
AnyStops == 3      \* maxStops===3 means any number of stops
Tolerance == 2     \* Math.abs(diff) <= 2

\* exclude = value.split(',').map(s => s.trim().toLowerCase()).filter(Boolean)
ExcludeList(pieces) ==
    SelectSeq([i \in 1..Len(pieces) |-> ToLowerCase(Trim(pieces[i]))],
              LAMBDA s : s # "")

destinationOk(r, dest) == r.destination_iata = dest

originOk(r, useAMS, useEIN) ==
    \/ useAMS /\ r.origin = "AMS"
    \/ useEIN /\ r.origin = "EIN"

windowOk(r, start, tripLength) ==
    LET out == DateValue(r.outbound_date)
    IN  IF out < start \/ out > endWindow THEN FALSE
        ELSE Abs(r.trip_length_days - tripLength) <= Tolerance

\* variant: the "any" value of maxStops is compared like any other
stopsOkNoSentinel(r, maxStops, maxLayover) ==
    /\ r.stops <= maxStops
    /\ r.max_layover_hours <= maxLayover

stopsOk(r, maxStops, maxLayover) ==
    /\ (IF maxStops = AnyStops THEN TRUE ELSE r.stops <= maxStops)
    /\ r.max_layover_hours <= maxLayover

excludeOk(r, exclude) == ~Includes(exclude, ToLowerCase(OrEmpty(r.airline)))

\* variant: the result is capped at its first row
FilterRowsCapped(records, f) ==
    LET kept == SelectSeq(records, LAMBDA r :
                    /\ destinationOk(r, f.citySelect)
                    /\ originOk(r, f.useAMS, f.useEIN)
                    /\ windowOk(r, DateValue(f.startDate), f.tripLength)
                    /\ stopsOk(r, f.maxStops, f.maxLayover)
                    /\ excludeOk(r, ExcludeList(f.excludeAirlines)))
    IN  IF Len(kept) <= 1 THEN kept ELSE <<kept[1]>>

\* the five successive rows.filter(...) passes over the records
FilterRows(records, f) ==
    LET exclude == ExcludeList(f.excludeAirlines)
        start == DateValue(f.startDate)
        rows1 == SelectSeq(records, LAMBDA r : destinationOk(r, f.citySelect))
        rows2 == SelectSeq(rows1, LAMBDA r : originOk(r, f.useAMS, f.useEIN))
        rows3 == SelectSeq(rows2, LAMBDA r : windowOk(r, start, f.tripLength))
        rows4 == SelectSeq(rows3, LAMBDA r : stopsOk(r, f.maxStops, f.maxLayover))
    IN  IF Len(exclude) > 0
        THEN SelectSeq(rows4, LAMBDA r : excludeOk(r, exclude))
        ELSE rows4

\* origin of the calendar chart: AMS unless only EIN is checked
CalendarOrigin(f) == IF f.useAMS THEN "AMS" ELSE IF f.useEIN THEN "EIN" ELSE "AMS"

----------------------------------------------------------------------------
(* Aggregation: buy-timing series and the two tables *)

Prices(arr) == [i \in 1..Len(arr) |-> arr[i].price_eur]
Stops(arr) == [i \in 1..Len(arr) |-> arr[i].stops]
Layovers(arr) == [i \in 1..Len(arr) |-> arr[i].max_layover_hours]

\* labels: the distinct days_before_departure, ascending; data: per label
\* the rounded average price of its records
BuyTimingSeries(rows) ==
    LET byDays == groupBy(rows, "days_before_departure")
        keys == [g \in 1..Len(byDays) |-> byDays[g].key]
        labels == StableSort(keys, keys)
        group(d) == (CHOOSE g \in 1..Len(byDays) : byDays[g].key = d)
    IN  [labels |-> labels,
         data |-> [l \in 1..Len(labels) |->
                      RoundAvg(Prices(byDays[group(labels[l])].items))]]

\* Object.entries(groups).map(...).sort((a,b) => a.price - b.price)
AirlineItems(rows) ==
    LET groups == groupBy(rows, "airline")
        items == [g \in 1..Len(groups) |->
                    [airline |-> groups[g].key,
                     price |-> RoundAvg(Prices(groups[g].items)),
                     stops |-> Fixed1Avg(Stops(groups[g].items)),
                     layover |-> Fixed1Avg(Layovers(groups[g].items))]]
    IN  StableSort(items, [g \in 1..Len(items) |-> items[g].price])

\* variant: among equally cheap records the last one wins
CheapestOfLastTie(arr) ==
    LET sorted == StableSort(arr, Prices(arr))
        ties == {i \in 1..Len(sorted) : sorted[i].price_eur = sorted[1].price_eur}
    IN  sorted[CHOOSE i \in ties : \A j \in ties : j <= i]

\* arr.sort((a,b) => a.price_eur - b.price_eur)[0]
CheapestOf(arr) == StableSort(arr, Prices(arr))[1]

\* Object.values(byDate).map(cheapest).sort(by outbound date)
ItineraryBest(rows) ==
    LET byDate == groupBy(rows, "outbound_date")
        best == [g \in 1..Len(byDate) |-> CheapestOf(byDate[g].items)]
    IN  StableSort(best, [g \in 1..Len(best) |-> DateValue(best[g].outbound_date)])

----------------------------------------------------------------------------
(* Calendar series *)

months == <<"Jan", "Feb", "Mrt", "Apr", "Mei", "Jun",
            "Jul", "Aug", "Sep", "Okt", "Nov", "Dec">>
weeks == <<"W1", "W2", "W3", "W4">>
nowY == "2026"
prevY == "2025"

RECURSIVE Flatten(_)
Flatten(ss) == IF ss = <<>> THEN <<>> ELSE ss[1] \o Flatten(Tail(ss))

\* months.flatMap(m => [m+"-W1", m+"-W2", m+"-W3", m+"-W4"])
CalendarLabels ==
    Flatten([i \in 1..Len(months) |->
                [w \in 1..Len(weeks) |-> <<months[i], weeks[w]>>]])

\* variant: a placeholder one bucket short
NullBucketsShort == <<<<>>, <<>>, <<>>>>

\* [null, null, null, null]
NullBuckets == <<<<>>, <<>>, <<>>, <<>>>>

\* all?.[key]?.[y]: the year object of the route, <<>> when there is none
YearEntry(all, key, y) ==
    IF key \in DOMAIN all /\ y \in DOMAIN all[key] THEN <<all[key][y]>> ELSE <<>>

\* all?.[key]?.[y]?.[mm] || [null,null,null,null]; an array is truthy
\* whatever its length
MonthBuckets(all, key, y, i) ==
    LET ye == YearEntry(all, key, y)
    IN  IF ye # <<>> /\ i \in DOMAIN ye[1] THEN ye[1][i] ELSE NullBuckets

getSeries(all, key, y) ==
    Flatten([i \in 1..Len(months) |-> MonthBuckets(all, key, y, i)])

\* variant: the previous year's series is always built
HasPrevAlways(all, key) == TRUE

\* sPrev is built only when the route has an entry for the previous year
HasPrev(all, key) == YearEntry(all, key, prevY) # <<>>

CalendarDatasets(all, key) ==
    LET sNow == [label |-> <<key, nowY>>, data |-> getSeries(all, key, nowY)]
        sPrev == [label |-> <<key, prevY>>, data |-> getSeries(all, key, prevY)]
    IN  IF HasPrev(all, key) THEN <<sNow, sPrev>> ELSE <<sNow>>

----------------------------------------------------------------------------
(* Input domains *)

Rec(dest, origin, date, trip, dbd, stops, layover, price, airline) ==
    [destination_iata |-> dest, origin |-> origin, outbound_date |-> date,
     trip_length_days |-> trip, days_before_departure |-> dbd, stops |-> stops,
     max_layover_hours |-> layover, price_eur |-> price, airline |-> airline]

\* records that each filter predicate accepts under some criteria and
\* rejects under others
FilterRecords ==
    <<Rec("LIS", "AMS", Date(2026, 7, 20), 21, 30, 0, 0, 120, <<"TAP">>),
      Rec("LIS", "EIN", Date(2026, 7, 18), 23, 30, 1, 3, 95, <<"KLM">>),
      Rec("OPO", "AMS", Date(2026, 8, 26), 19, 10, 7, 5, 95, <<>>),
      Rec("LIS", "AMS", Date(2026, 8, 27), 21, 10, 0, 0, 80, <<"klm">>),
      Rec("LIS", "RTM", Date(2026, 7, 20), 21, 30, 0, 0, 70, <<"">>),
      Rec("LIS", "EIN", Date(2026, 7, 10), 17, 60, 2, 24, 100, <<"Tap">>) >>

FilterPool == {FilterRecords[i] : i \in 1..Len(FilterRecords)}

\* records that differ in date, price and airline only, all acceptable to
\* LenientForm
TablePool ==
    { Rec("LIS", "AMS", dt, 21, 30 - p, Len(a), 2 * Len(a), 100 + p, a) :
        dt \in {Date(2026, 7, 20), Date(2026, 7, 21)},
        p \in {0, 1},
        a \in {<<"KLM">>, <<"">>, <<>>} }

ListsOver(pool, n) == UNION {[1..k -> pool] : k \in 0..n}

FilterLists == ListsOver(FilterPool, MaxRaw)
TableLists == ListsOver(TablePool, MaxRows)

Forms ==
    [startDate : {Date(2026, 7, 1), Date(2026, 7, 18)},
     tripLength : {19, 21},
     useAMS : BOOLEAN,
     useEIN : BOOLEAN,
     maxStops : {0, 1, 3},
     maxLayover : {3, 24},
     excludeAirlines : {<<"">>, <<" KLM", "", "Tap ">>},
     citySelect : {"LIS", "OPO"}]

LenientForm ==
    [startDate |-> Date(2026, 7, 1), tripLength |-> 21, useAMS |-> TRUE,
     useEIN |-> TRUE, maxStops |-> 3, maxLayover |-> 24,
     excludeAirlines |-> <<"">>, citySelect |-> "LIS"]

\* the forms that differ from LenientForm in origin and destination only
RouteForms ==
    {[LenientForm EXCEPT !.useAMS = a, !.useEIN = e, !.citySelect = c] :
        a \in BOOLEAN, e \in BOOLEAN, c \in {"LIS", "OPO"}}

\* those among them that keep EIN checked
AppForms == {f \in RouteForms : f.useEIN}

\* the criteria for the second of two successive filters
SecondForms == {f \in Forms : f.tripLength = 21 /\ f.citySelect = "LIS"}

\* a settled fetch of data/sample_data.json: a network error, or a response
\* with an ok (2xx) or other status whose body either parses to a record
\* list (<<list>>) or does not parse (<<>>)
NetworkError == [kind |-> "network_error", ok |-> FALSE, body |-> <<>>]
Response(ok, body) == [kind |-> "response", ok |-> ok, body |-> body]
NotSettled == [kind |-> "pending", ok |-> FALSE, body |-> <<>>]

SampleList ==
    << Rec("LIS", "AMS", Date(2026, 7, 20), 21, 30, 0, 0, 120, <<"TAP">>),
       Rec("OPO", "EIN", Date(2026, 7, 20), 20, 30, 1, 3, 95, <<"KLM">>) >>

AppResponses ==
    {NetworkError} \cup
    {Response(ok, body) : ok \in BOOLEAN, body \in {<<>>, <<SampleList>>}}

\* contents of data/monthly_lowest.json: route -> year -> month -> buckets
Routes == {<<"AMS", "LIS">>, <<"EIN", "LIS">>, <<"AMS", "OPO">>, <<"EIN", "OPO">>}

FourBuckets == <<<<89>>, <<>>, <<>>, <<75>>>>

MonthMaps(bucketLists) ==
    {[i \in {} |-> FourBuckets]} \cup
    {[i \in ms |-> b] : ms \in {{1}, {7, 12}, 1..12}, b \in bucketLists}

\* per route: absent, current year only, previous year only, or both
RouteEntries(bucketLists) ==
    UNION {[ys -> MonthMaps(bucketLists)] : ys \in {{nowY}, {prevY}, {nowY, prevY}}}

MonthlyFiles(bucketLists) ==
    {[k \in {} |-> 0]} \cup
    {[k \in ks |-> e] : ks \in {{<<"AMS", "LIS">>}, Routes},
                        e \in RouteEntries(bucketLists)}

\* month entries as the data model prescribes them, and entries of another
\* length
AnyBuckets == {FourBuckets, <<>>, <<<<60>>, <<>>, <<61>>>>}

FullMonthly ==
    [k \in Routes |-> [y \in {nowY, prevY} |-> [i \in 1..12 |-> FourBuckets]]]

AppMonthly ==
    {FullMonthly,
     [k \in {<<"AMS", "LIS">>} |-> [y \in {nowY} |-> [i \in {7} |-> FourBuckets]]]}

----------------------------------------------------------------------------
(* Chart instances *)

BuyCanvas == "buyTimingChart"
CalCanvas == "calendarChart"

\* variant: the previous instance is left alone
DestroyNothing(handle, canvas, instances) == instances

\* if (handle) handle.destroy(): the instance the handle refers to stops
\* being live
Destroy(handle, canvas, instances) ==
    IF handle = None THEN instances
    ELSE instances \ {[canvas |-> canvas, id |-> handle.id]}

\* new Chart(ctx, config): a fresh live instance on the canvas
Construct(id, canvas, instances) ==
    instances \cup {[canvas |-> canvas, id |-> id]}

----------------------------------------------------------------------------
(* Operations *)

appVars == <<loaded, resp, raw, filtered, form, buyChart, calChart, live,
             nextId, airlineTable, itineraryTable, calls>>

\* runAnalysis() over the record list state.raw holds when it runs: filter,
\* store, rebuild the buy-timing chart and both tables, then start
\* buildCalendarChart, which runs up to its first await (the fetch)
runAnalysis(records) ==
    LET rows == FilterRows(records, form)
        series == BuyTimingSeries(rows)
    IN  /\ filtered' = rows
        /\ buyChart' = [id |-> nextId, labels |-> series.labels,
                        data |-> series.data]
        /\ live' = Construct(nextId, BuyCanvas, Destroy(buyChart, BuyCanvas, live))
        /\ nextId' = nextId + 1
        /\ airlineTable' = AirlineItems(rows)
        /\ itineraryTable' = ItineraryBest(rows)
        /\ calls' = Append(calls, [origin |-> CalendarOrigin(form),
                                   dest |-> form.citySelect,
                                   status |-> "pending"])
        /\ UNCHANGED <<calChart, form>>

\* loadData's outcome for a settled fetch: res.json() of a parsable body,
\* whatever the status; [] when fetch or res.json() throws
LoadedRecords(r) ==
    IF r.kind = "network_error" \/ r.body = <<>> THEN <<>> ELSE r.body[1]

\* the DOMContentLoaded handler from the settling of loadData's fetch on:
\* state.raw is assigned, the submit listener registered, runAnalysis called
DOMContentLoaded(r) ==
    /\ ~loaded
    /\ resp' = r
    /\ raw' = LoadedRecords(r)
    /\ loaded' = TRUE
    /\ runAnalysis(LoadedRecords(r))
    /\ UNCHANGED <<monthly, stage, comp>>

\* the user edits the filter form
EditForm(choices) ==
    /\ \E f \in choices : form' = f
    /\ form' # form
    /\ UNCHANGED <<loaded, resp, raw, filtered, buyChart, calChart, live, nextId,
                   airlineTable, itineraryTable, calls, monthly, stage, comp>>

\* the form's submit listener
Submit ==
    /\ loaded
    /\ Len(calls) < MaxTriggers
    /\ runAnalysis(raw)
    /\ UNCHANGED <<loaded, resp, raw, monthly, stage, comp>>

SetStatus(i, st) == [calls EXCEPT ![i].status = st]

\* variant: the previous chart is destroyed before the fetch is awaited, so
\* a failing fetch leaves the canvas without chart
CalendarFailDestroys(i) ==
    /\ calls[i].status = "pending"
    /\ calls' = SetStatus(i, "failed")
    /\ live' = Destroy(calChart, CalCanvas, live)
    /\ UNCHANGED <<loaded, resp, raw, filtered, form, buyChart, calChart,
                   nextId, airlineTable, itineraryTable, monthly, stage, comp>>

\* buildCalendarChart, call i: fetch or res.json() throws; the catch block
\* swallows it
CalendarFail(i) ==
    /\ calls[i].status = "pending"
    /\ calls' = SetStatus(i, "failed")
    /\ UNCHANGED <<loaded, resp, raw, filtered, form, buyChart, calChart, live,
                   nextId, airlineTable, itineraryTable, monthly, stage, comp>>

\* buildCalendarChart, call i, from the parsed response on: the series are
\* built, the previous instance destroyed and the new chart constructed
CalendarRender(i) ==
    LET key == <<calls[i].origin, calls[i].dest>>
    IN  /\ calls[i].status = "pending"
        /\ calChart' = [id |-> nextId, key |-> key, labels |-> CalendarLabels,
                        datasets |-> CalendarDatasets(monthly, key)]
        /\ live' = Construct(nextId, CalCanvas, Destroy(calChart, CalCanvas, live))
        /\ nextId' = nextId + 1
        /\ calls' = SetStatus(i, "ok")
        /\ UNCHANGED <<loaded, resp, raw, filtered, form, buyChart,
                       airlineTable, itineraryTable, monthly, stage, comp>>

----------------------------------------------------------------------------
(* The dashboard *)

NoComp == [S |-> <<>>, c1 |-> LenientForm, c2 |-> LenientForm,
           once |-> <<>>, twice |-> <<>>]

\* the page before the sample fetch settles
Fresh ==
    /\ loaded = FALSE
    /\ resp = NotSettled
    /\ raw = <<>>
    /\ filtered = <<>>
    /\ buyChart = None
    /\ calChart = None
    /\ live = {}
    /\ nextId = 1
    /\ airlineTable = <<>>
    /\ itineraryTable = <<>>
    /\ calls = <<>>

Init ==
    /\ Fresh
    /\ form \in AppForms
    /\ monthly \in AppMonthly
    /\ stage = "idle"
    /\ comp = NoComp

Load == \E r \in AppResponses : DOMContentLoaded(r)
EditRoute == EditForm(AppForms)
CalendarFails == \E i \in 1..Len(calls) : CalendarFail(i)
CalendarRenders == \E i \in 1..Len(calls) : CalendarRender(i)

Next ==
    \/ Load
    \/ EditRoute
    \/ Submit
    \/ CalendarFails
    \/ CalendarRenders

Spec == Init /\ [][Next]_vars

----------------------------------------------------------------------------
(* One analysis over rich record lists and criteria *)

InitAnalysis ==
    /\ Fresh
    /\ form \in Forms
    /\ monthly = FullMonthly
    /\ stage = "idle"
    /\ comp = NoComp

LoadRecords ==
    \E body \in (IF form = LenientForm THEN TableLists ELSE FilterLists) :
        DOMContentLoaded(Response(TRUE, <<body>>))

NextAnalysis == LoadRecords

SpecAnalysis == InitAnalysis /\ [][NextAnalysis]_vars

----------------------------------------------------------------------------
(* The calendar chart over rich monthly data *)

InitCalendar ==
    /\ Fresh
    /\ form \in RouteForms
    /\ monthly \in MonthlyFiles(AnyBuckets)
    /\ stage = "idle"
    /\ comp = NoComp

LoadSample == DOMContentLoaded(Response(TRUE, <<SampleList>>))

NextCalendar ==
    \/ LoadSample
    \/ Submit
    \/ CalendarFails
    \/ CalendarRenders

SpecCalendar == InitCalendar /\ [][NextCalendar]_vars

----------------------------------------------------------------------------
(* The filter applied to its own result *)

InitCompose ==
    /\ Fresh
    /\ form = LenientForm
    /\ monthly = FullMonthly
    /\ stage = "start"
    /\ comp \in [S : {FilterRecords}, c1 : Forms, c2 : SecondForms,
                 once : {<<>>}, twice : {<<>>}]

FilterOnce ==
    /\ stage = "start"
    /\ comp' = [comp EXCEPT !.once = FilterRows(comp.S, comp.c1)]
    /\ stage' = "once"
    /\ UNCHANGED <<appVars, monthly>>

FilterTwice ==
    /\ stage = "once"
    /\ comp' = [comp EXCEPT !.twice = FilterRows(comp.once, comp.c2)]
    /\ stage' = "twice"
    /\ UNCHANGED <<appVars, monthly>>

NextCompose ==
    \/ FilterOnce
    \/ FilterTwice

SpecCompose == InitCompose /\ [][NextCompose]_vars

----------------------------------------------------------------------------
(* Properties of the filter *)

\* the origins the form selects
SelectedOrigins(f) ==
    (IF f.useAMS THEN {"AMS"} ELSE {}) \cup (IF f.useEIN THEN {"EIN"} ELSE {})

\* names that differ in the case of their letters only
CaseClasses == {{"KLM", "Klm", "klm"}, {"TAP", "Tap", "tap"}}

SameIgnoringCase(a, b) == a = b \/ \E c \in CaseClasses : a \in c /\ b \in c

\* the airlines the exclusion text names: its pieces without surrounding
\* blanks, the empty ones dropped
ExcludedNames(f) ==
    {Trim(f.excludeAirlines[k]) : k \in 1..Len(f.excludeAirlines)} \ {""}

\* the criteria as the contract lists them
Satisfies(r, f) ==
    /\ r.destination_iata = f.citySelect
    /\ r.origin \in SelectedOrigins(f)
    /\ DateValue(f.startDate) <= DateValue(r.outbound_date)
    /\ DateValue(r.outbound_date) <= DateValue(Date(2026, 8, 26))
    /\ r.trip_length_days - f.tripLength \in -2..2
    /\ (r.stops <= f.maxStops \/ f.maxStops = 3)
    /\ r.max_layover_hours <= f.maxLayover
    /\ ~\E n \in ExcludedNames(f) : SameIgnoringCase(n, OrEmpty(r.airline))

\* C1: after runAnalysis, state.filtered holds exactly the records of
\* state.raw that satisfy every criterion of the form (destination, selected
\* origin, outbound date within [start, 2026-08-26], trip length within 2 days,
\* stops <= maxStops or maxStops = 3, layover <= maxLayover, airline not
\* excluded), in input order; with AMS and EIN both unchecked it is empty.
C1_FilteredIsExactlyTheMatches ==
    loaded =>
        /\ filtered = SelectSeq(raw, LAMBDA r : Satisfies(r, form))
        /\ (~form.useAMS /\ ~form.useEIN => filtered = <<>>)

\* a record with 7 stops passes under maxStops = 3 while another record of
\* the list is rejected
C1_Witness ==
    /\ loaded
    /\ form.maxStops = 3
    /\ Len(filtered) = 1
    /\ Len(raw) = 2
    /\ filtered[1].stops = 7

\* a record passes the filter on its own
Passes(r, f) == FilterRows(<<r>>, f) = <<r>>

\* c2 asks for no more than c1 does
Looser(c1, c2) ==
    /\ c2.citySelect = c1.citySelect
    /\ c2.tripLength = c1.tripLength
    /\ (c1.useAMS => c2.useAMS)
    /\ (c1.useEIN => c2.useEIN)
    /\ DateValue(c2.startDate) <= DateValue(c1.startDate)
    /\ (c2.maxStops = 3 \/ (c1.maxStops # 3 /\ c1.maxStops <= c2.maxStops))
    /\ c1.maxLayover <= c2.maxLayover
    /\ \A k \in 1..Len(ExcludeList(c2.excludeAirlines)) :
          Includes(ExcludeList(c1.excludeAirlines),
                   ExcludeList(c2.excludeAirlines)[k])

\* C7: filtering with c2 the result of filtering S with c1 gives, in the same
\* order, the records of S that pass both c1 and c2; when c2 is the same as or
\* looser than c1 the second filter returns its input unchanged.
C7_FilterComposes ==
    stage = "twice" =>
        /\ comp.twice = SelectSeq(comp.S, LAMBDA r : Passes(r, comp.c1) /\ Passes(r, comp.c2))
        /\ (Looser(comp.c1, comp.c2) => comp.twice = comp.once)

\* the second filter removed something from a first result of two or more
\* records
C7_Witness ==
    /\ stage = "twice"
    /\ Len(comp.S) > Len(comp.once)
    /\ Len(comp.once) >= 2
    /\ Len(comp.once) > Len(comp.twice)
    /\ Len(comp.twice) >= 1

----------------------------------------------------------------------------
(* Properties of the tables *)

DatesOf(rows) == {rows[i].outbound_date : i \in 1..Len(rows)}

\* the first position holding a cheapest record of date d
FirstCheapest(rows, d) ==
    CHOOSE i \in 1..Len(rows) :
        /\ rows[i].outbound_date = d
        /\ \A j \in 1..Len(rows) :
              rows[j].outbound_date = d =>
                  \/ rows[j].price_eur > rows[i].price_eur
                  \/ rows[j].price_eur = rows[i].price_eur /\ i <= j

\* C5: the itinerary table has exactly one row per distinct outbound date of
\* the filtered records; that row is a cheapest record of its date, and among
\* equally cheap ones the one that comes first in the filtered list.
C5_ItineraryCheapestFirst ==
    loaded =>
        /\ Len(itineraryTable) = Cardinality(DatesOf(filtered))
        /\ \A d \in DatesOf(filtered) :
              \E k \in 1..Len(itineraryTable) :
                  itineraryTable[k] = filtered[FirstCheapest(filtered, d)]

\* two different records of one date share the lowest price and the earlier
\* one is the row shown
C5_Witness ==
    /\ loaded
    /\ \E i, j \in 1..Len(filtered) :
          /\ i < j
          /\ filtered[i] # filtered[j]
          /\ filtered[i].outbound_date = filtered[j].outbound_date
          /\ filtered[i].price_eur = filtered[j].price_eur
          /\ i = FirstCheapest(filtered, filtered[i].outbound_date)
          /\ Includes(itineraryTable, filtered[i])
          /\ ~Includes(itineraryTable, filtered[j])

\* the airline of a record as the table is meant to see it: no airline
\* (empty or missing), or the airline's name
AirlineValue(r) == IF OrEmpty(r.airline) = "" THEN <<>> ELSE r.airline

AirlineValues(rows) == {AirlineValue(rows[i]) : i \in 1..Len(rows)}

\* the records the row of an airline table was computed from
RowRecords(rows, item) == SelectSeq(rows, LAMBDA r : PropertyKey(r.airline) = item.airline)

\* average price of records a is at most that of records b
AvgAtMost(a, b) == Sum(Prices(a)) * Len(b) <= Sum(Prices(b)) * Len(a)

\* C9: the airline table has exactly one row per distinct airline value, the
\* records without airline (empty or missing) forming one group kept apart
\* from every named airline, and the rows ascend by average price.
C9_OneRowPerAirlineAscending ==
    loaded =>
        /\ Len(airlineTable) = Cardinality(AirlineValues(filtered))
        /\ \A k \in 1..Len(airlineTable) :
              \A i, j \in 1..Len(RowRecords(filtered, airlineTable[k])) :
                  AirlineValue(RowRecords(filtered, airlineTable[k])[i]) =
                  AirlineValue(RowRecords(filtered, airlineTable[k])[j])
        /\ \A k \in 1..(Len(airlineTable) - 1) :
              AvgAtMost(RowRecords(filtered, airlineTable[k]),
                        RowRecords(filtered, airlineTable[k + 1]))

----------------------------------------------------------------------------
(* Properties of the calendar chart *)

\* the file has an entry for the route under year y
HasYear(all, key, y) == key \in DOMAIN all /\ y \in DOMAIN all[key]

\* every month entry the file holds for the route has exactly 4 buckets
FourPerMonth(all, key) ==
    \A y \in {nowY, prevY} :
        HasYear(all, key, y) =>
            \A i \in DOMAIN all[key][y] : Len(all[key][y][i]) = 4

SeriesAre48(chart) ==
    /\ Len(chart.labels) = 48
    /\ \A k \in 1..Len(chart.datasets) : Len(chart.datasets[k].data) = 48

\* C2 as stated: every series of the calendar chart has 48 values, one per
\* label, whatever the number of entries a month holds in the data.
C2_Original_AlwaysFortyEight == calChart # None => SeriesAre48(calChart)

\* C2, amended: every series of the calendar chart has 48 values, one per
\* label, when each month entry of the route is missing or holds exactly 4
\* entries.
C2_FortyEightWhenFourPerMonth ==
    (calChart # None /\ FourPerMonth(monthly, calChart.key)) => SeriesAre48(calChart)

\* a chart drawn for a route whose current year has some months and lacks
\* others
C2_Witness ==
    /\ calChart # None
    /\ FourPerMonth(monthly, calChart.key)
    /\ HasYear(monthly, calChart.key, nowY)
    /\ 7 \in DOMAIN monthly[calChart.key][nowY]
    /\ 1 \notin DOMAIN monthly[calChart.key][nowY]
    /\ calChart.datasets[1].data[25] = <<89>>
    /\ calChart.datasets[1].data[1] = <<>>

YearsShown(chart) == {chart.datasets[k].label[2] : k \in 1..Len(chart.datasets)}

\* C6: the calendar chart has a 2025 dataset exactly when the data has an
\* entry for the route under 2025; a route present under 2026 only gives a
\* chart of one dataset.
C6_PrevYearIffPresent ==
    calChart # None =>
        /\ (prevY \in YearsShown(calChart) <=> HasYear(monthly, calChart.key, prevY))
        /\ nowY \in YearsShown(calChart)
        /\ Len(calChart.datasets) = Cardinality(YearsShown(calChart))
        /\ (HasYear(monthly, calChart.key, nowY) /\ ~HasYear(monthly, calChart.key, prevY)
               => Len(calChart.datasets) = 1)

\* a chart of a single dataset for a route the data holds under 2026 alone
C6_Witness ==
    /\ calChart # None
    /\ HasYear(monthly, calChart.key, nowY)
    /\ ~HasYear(monthly, calChart.key, prevY)
    /\ Len(calChart.datasets) = 1

----------------------------------------------------------------------------
(* Properties of loading and of the in-flight calendar fetches *)

FetchFailed(r) == r.kind = "network_error" \/ (r.kind = "response" /\ ~r.ok)

\* C3: when the sample fetch failed (network error or non-2xx status),
\* state.raw is empty, and so are the filtered set, the buy-timing series and
\* both tables.
C3_FailedFetchLeavesRawEmpty ==
    (loaded /\ FetchFailed(resp)) =>
        /\ raw = <<>>
        /\ filtered = <<>>
        /\ buyChart.labels = <<>>
        /\ airlineTable = <<>>
        /\ itineraryTable = <<>>

LastCall == calls[Len(calls)]

\* C4: once every calendar fetch has resolved, the calendar chart shown is
\* the one built for the origin and destination of the latest runAnalysis,
\* whose rows the tables and the buy-timing chart show.
C4_LatestTriggerWins ==
    (calls # <<>> /\ \A i \in 1..Len(calls) : calls[i].status = "ok") =>
        /\ calChart # None
        /\ calChart.key = <<LastCall.origin, LastCall.dest>>
        /\ calChart.datasets =
              CalendarDatasets(monthly, <<LastCall.origin, LastCall.dest>>)
        /\ airlineTable = AirlineItems(filtered)
        /\ itineraryTable = ItineraryBest(filtered)
        /\ buyChart.labels = BuyTimingSeries(filtered).labels

\* call i fails in this step
FailsNow(i) ==
    /\ i \in DOMAIN calls'
    /\ calls[i].status = "pending"
    /\ calls'[i].status = "failed"

\* C8: a step in which a calendar fetch fails changes neither the calendar
\* chart handle nor the live instances, and leaves state.filtered, the
\* buy-timing chart and both tables as they were.
C8_FailedCalendarFetchChangesNothing ==
    [][(\E i \in DOMAIN calls : FailsNow(i)) =>
          UNCHANGED <<calChart, live, filtered, buyChart, airlineTable,
                      itineraryTable, raw>>]_vars

\* a calendar fetch has failed and the calendar chart of another call is
\* still on its canvas
C8_Witness ==
    /\ \E i \in 1..Len(calls) : calls[i].status = "failed"
    /\ calChart # None
    /\ [canvas |-> CalCanvas, id |-> calChart.id] \in live

LiveOn(canvas) == {c \in live : c.canvas = canvas}

HeldBy(handle, canvas) ==
    IF handle = None THEN {} ELSE {[canvas |-> canvas, id |-> handle.id]}

\* C10: each canvas has at most one live chart instance, the one its handle
\* refers to.
C10_AtMostOneLiveChartPerCanvas ==
    /\ Cardinality(LiveOn(BuyCanvas)) <= 1
    /\ Cardinality(LiveOn(CalCanvas)) <= 1
    /\ LiveOn(BuyCanvas) = HeldBy(buyChart, BuyCanvas)
    /\ LiveOn(CalCanvas) = HeldBy(calChart, CalCanvas)

\* both charts have been replaced at least once
C10_Witness ==
    /\ Len(calls) >= 2
    /\ \A i \in 1..Len(calls) : calls[i].status = "ok"
    /\ Cardinality(live) = 2

====
